---- MODULE Spec2Model ----
(***************************************************************************)
(* Model of offchain/types/src/epoch.rs: the EpochState Foldable, its cold *)
(* rebuild (sync) and its single-block warm advance (fold), run against a  *)
(* chain of blocks that carry the PhaseChange logs of the tracked dapp.    *)
(***************************************************************************)
EXTENDS Integers, Sequences, FiniteSets, TLC

\* Number of blocks mined on top of the first block.
MaxBlocks == 2

VARIABLES
    chain,   \* the blocks mined so far; a block's number is its index
    state,   \* the EpochState the framework holds, NoState before the first sync
    at,      \* the number of the block `state` is valid at, 0 before the first sync
    last     \* the last sync/fold call: its arguments and its Result

vars == <<chain, state, at, last>>

----------------------------------------------------------------------------
\* Option<U256>
None == <<>>
Some(v) == <<v>>

\* Result<EpochState, FoldableError>
NoState == [absent |-> TRUE]
NoSnapshot == [absent |-> TRUE]
Ok(s) == [ok |-> TRUE, state |-> s, err |-> "none", code |-> 0, snapshot |-> NoSnapshot]
Err(kind, code, snap) ==
    [ok |-> FALSE, state |-> NoState, err |-> kind, code |-> code, snapshot |-> snap]

\* `?` on a failed tracker fetch, event query or block lookup
Upstream == Err("upstream", 0, NoSnapshot)
\* anyhow!("Illegal state for AwaitingDispute: {:?}", sealed_epoch)
IllegalState(snap) == Err("illegal_state", 0, snap)
\* anyhow!("Could not convert new_phase `{}` to PhaseState", new_phase)
UnrecognizedPhase(new_phase) == Err("unrecognized_phase", new_phase, NoSnapshot)

\* The remote reads a call makes; `fail` names the one that fails, if it is made.
Lookups == {"finalized", "events", "block", "sealed", "accumulating"}
Fails == Lookups \cup {"none"}

----------------------------------------------------------------------------
\* ContractPhase
InputAccumulation == [tag |-> "InputAccumulation"]
AwaitingConsensus(sealed_epoch, round_start) ==
    [tag |-> "AwaitingConsensus", sealed_epoch |-> sealed_epoch,
     round_start |-> round_start]
AwaitingDispute(claimed_epoch) ==
    [tag |-> "AwaitingDispute", sealed_epoch |-> claimed_epoch]

\* EpochState
EpochState(initial_epoch, phase, finalized_epochs, epoch, timestamp, address) ==
    [initial_epoch |-> initial_epoch,
     current_phase |-> phase,
     finalized_epochs |-> finalized_epochs,
     current_epoch |-> epoch,
     phase_change_timestamp |-> timestamp,
     dapp_contract_address |-> address]

----------------------------------------------------------------------------
\* The three sub-trackers, "state as of block b" keyed by (address, epoch).

\* Finalized-Epoch Ledger: the epochs finalized as of block b.
FinalizedEpochsAt(address, initial_epoch, b) ==
    [dapp_contract_address |-> address, initial_epoch |-> initial_epoch,
     finalized |-> chain[b].finalized]

\* The index of the next epoch is the number of finalized epochs.
next_epoch(finalized_epochs) == finalized_epochs.finalized

\* Accumulating-Epoch Tracker: the snapshot of epoch e taken at block b.
AccumulatingEpochAt(address, e, b) ==
    [type |-> "AccumulatingEpoch", dapp_contract_address |-> address,
     epoch_number |-> e, as_of |-> b]

\* The payload of a sealed epoch that holds claims, as of block b.
EpochWithClaimsAt(address, e, b) ==
    [type |-> "EpochWithClaims", dapp_contract_address |-> address,
     epoch_number |-> e, as_of |-> b]

\* Sealed-Epoch Tracker: no claims, or one or more claims, on epoch e as of
\* block b. Only the oldest epoch that is not finalized can hold claims.
SealedEpochStateAt(address, e, b) ==
    IF e = chain[b].finalized /\ chain[b].claims
      THEN [variant |-> "SealedEpochWithClaims",
            claimed_epoch |-> EpochWithClaimsAt(address, e, b)]
      ELSE [variant |-> "SealedEpochNoClaims",
            sealed_epoch |-> AccumulatingEpochAt(address, e, b)]

\* SealedEpochState::epoch_number()
sealed_epoch_number(sealed) ==
    IF sealed.variant = "SealedEpochWithClaims"
      THEN sealed.claimed_epoch.epoch_number
      ELSE sealed.sealed_epoch.epoch_number

----------------------------------------------------------------------------
\* The event-query layer, block access and the bloom filter.

RECURSIVE EventsUpTo(_)
\* phase_change_filter().query_with_meta() through the SyncMiddleware: every
\* PhaseChange log of the dapp up to block b, oldest first, with its block.
EventsUpTo(b) ==
    IF b = 0 THEN <<>>
    ELSE EventsUpTo(b - 1) \o
         [i \in 1..Len(chain[b].events) |->
            [new_phase |-> chain[b].events[i], block_hash |-> b]]

\* phase_change_filter().query() in fold: the PhaseChange logs of block b.
\* fold builds the contract on env.inner_middleware(); the query is taken to
\* be scoped to the block being folded, as the event-query layer promises.
EventsIn(b) ==
    [i \in 1..Len(chain[b].events) |-> [new_phase |-> chain[b].events[i]]]

\* middleware.get_block(hash)
get_block(hash) == chain[hash]

\* fold_utils::contains_address / contains_topic on block.logs_bloom
contains_address(b) == "address" \in chain[b].logs_bloom
contains_topic(b) == "topic" \in chain[b].logs_bloom

LastOf(s) == s[Len(s)]

----------------------------------------------------------------------------
\* What a match arm evaluates to: the pair (current_phase, current_epoch), or
\* the error it returns early with.
Pair(current_phase, current_epoch) ==
    [ok |-> TRUE, current_phase |-> current_phase, current_epoch |-> current_epoch]

----------------------------------------------------------------------------
\* sync: the cold rebuild at block b.

\* let phase_change_timestamp = match phase_change_events.last() {...}
sync_phase_change_timestamp(phase_change_events) ==
    IF phase_change_events = <<>> THEN None
    ELSE Some(get_block(LastOf(phase_change_events).block_hash).timestamp)

\* Some((PhaseChangeFilter { new_phase: 0 }, _)) | None
sync_input_accumulation(address, next, b, fail) ==
    IF fail = "accumulating" THEN Upstream
    ELSE Pair(InputAccumulation, AccumulatingEpochAt(address, next, b))

\* Some((PhaseChangeFilter { new_phase: 1 }, _))
sync_awaiting_consensus(address, next, b, phase_change_timestamp, fail) ==
    IF fail \in {"sealed", "accumulating"} THEN Upstream
    ELSE LET sealed_epoch == SealedEpochStateAt(address, next, b)
             current_epoch == AccumulatingEpochAt(address, next + 1, b)
             round_start == phase_change_timestamp[1]
         IN  Pair(AwaitingConsensus(sealed_epoch, round_start), current_epoch)

\* Some((PhaseChangeFilter { new_phase: 2 }, _))
sync_awaiting_dispute(address, next, b, fail) ==
    IF fail \in {"sealed", "accumulating"} THEN Upstream
    ELSE LET sealed_epoch == SealedEpochStateAt(address, next, b)
             current_epoch == AccumulatingEpochAt(address, next + 1, b)
         IN  IF sealed_epoch.variant = "SealedEpochNoClaims"
               THEN IllegalState(sealed_epoch.sealed_epoch)
               ELSE Pair(AwaitingDispute(sealed_epoch.claimed_epoch), current_epoch)

\* Mutant: the oldest PhaseChange log decides the phase.
sync_match_first(address, next, b, phase_change_events, phase_change_timestamp, fail) ==
    IF phase_change_events = <<>>
      THEN sync_input_accumulation(address, next, b, fail)
    ELSE LET new_phase == Head(phase_change_events).new_phase IN
      CASE new_phase = 0 -> sync_input_accumulation(address, next, b, fail)
        [] new_phase = 1 ->
             sync_awaiting_consensus(address, next, b, phase_change_timestamp, fail)
        [] new_phase = 2 -> sync_awaiting_dispute(address, next, b, fail)
        [] OTHER -> UnrecognizedPhase(new_phase)

\* let (current_phase, current_epoch) = match phase_change_events.last() {...}
sync_match(address, next, b, phase_change_events, phase_change_timestamp, fail) ==
    IF phase_change_events = <<>>
      THEN sync_input_accumulation(address, next, b, fail)
    ELSE LET new_phase == LastOf(phase_change_events).new_phase IN
      CASE new_phase = 0 -> sync_input_accumulation(address, next, b, fail)
        [] new_phase = 1 ->
             sync_awaiting_consensus(address, next, b, phase_change_timestamp, fail)
        [] new_phase = 2 -> sync_awaiting_dispute(address, next, b, fail)
        [] OTHER -> UnrecognizedPhase(new_phase)

sync(initial_state, b, fail) ==
    LET dapp_contract_address == initial_state[1]
        initial_epoch == initial_state[2]
        finalized_epochs ==
            FinalizedEpochsAt(dapp_contract_address, initial_epoch, b)
        next == next_epoch(finalized_epochs)
        phase_change_events == EventsUpTo(b)
        phase_change_timestamp == sync_phase_change_timestamp(phase_change_events)
        arm == sync_match(dapp_contract_address, next, b, phase_change_events,
                          phase_change_timestamp, fail)
    IN  IF fail \in {"finalized", "events"} THEN Upstream
        ELSE IF fail = "block" /\ phase_change_events # <<>> THEN Upstream
        ELSE IF ~arm.ok THEN arm
        ELSE Ok(EpochState(initial_epoch, arm.current_phase, finalized_epochs,
                           arm.current_epoch, phase_change_timestamp,
                           dapp_contract_address))

----------------------------------------------------------------------------
\* fold: the warm advance of previous_state to block b.

\* if !(contains_address(..) && contains_topic(..))
no_phase_change_log(b) == ~(contains_address(b) /\ contains_topic(b))

\* Mutant: when the sealed-epoch fetch fails the previous phase is kept as it
\* is and the call returns a state.
fold_refresh_phase_partial(previous_state, current_epoch, b, fail) ==
    LET address == previous_state.dapp_contract_address
        phase == previous_state.current_phase
    IN  CASE phase.tag = "InputAccumulation" -> Pair(InputAccumulation, current_epoch)
          [] phase.tag = "AwaitingConsensus" ->
               IF fail = "sealed" THEN Pair(phase, current_epoch)
               ELSE Pair(AwaitingConsensus(
                             SealedEpochStateAt(address,
                                 sealed_epoch_number(phase.sealed_epoch), b),
                             phase.round_start),
                         current_epoch)
          [] phase.tag = "AwaitingDispute" ->
               IF fail = "sealed" THEN Pair(phase, current_epoch)
               ELSE LET sealed_epoch ==
                            SealedEpochStateAt(address,
                                               phase.sealed_epoch.epoch_number, b)
                    IN  IF sealed_epoch.variant = "SealedEpochNoClaims"
                          THEN IllegalState(sealed_epoch.sealed_epoch)
                          ELSE Pair(AwaitingDispute(sealed_epoch.claimed_epoch),
                                    current_epoch)

\* Mutant: the refreshed sealed epoch of AwaitingDispute is taken as it comes,
\* claims or not.
fold_refresh_phase_unchecked(previous_state, current_epoch, b, fail) ==
    LET address == previous_state.dapp_contract_address
        phase == previous_state.current_phase
    IN  CASE phase.tag = "InputAccumulation" -> Pair(InputAccumulation, current_epoch)
          [] phase.tag = "AwaitingConsensus" ->
               IF fail = "sealed" THEN Upstream
               ELSE Pair(AwaitingConsensus(
                             SealedEpochStateAt(address,
                                 sealed_epoch_number(phase.sealed_epoch), b),
                             phase.round_start),
                         current_epoch)
          [] phase.tag = "AwaitingDispute" ->
               IF fail = "sealed" THEN Upstream
               ELSE LET sealed_epoch ==
                            SealedEpochStateAt(address,
                                               phase.sealed_epoch.epoch_number, b)
                    IN  Pair(AwaitingDispute(
                                 IF sealed_epoch.variant = "SealedEpochNoClaims"
                                   THEN sealed_epoch.sealed_epoch
                                   ELSE sealed_epoch.claimed_epoch),
                             current_epoch)

\* let current_phase = match &previous_state.current_phase {...}
fold_refresh_phase(previous_state, current_epoch, b, fail) ==
    LET address == previous_state.dapp_contract_address
        phase == previous_state.current_phase
    IN  CASE phase.tag = "InputAccumulation" -> Pair(InputAccumulation, current_epoch)
          [] phase.tag = "AwaitingConsensus" ->
               IF fail = "sealed" THEN Upstream
               ELSE Pair(AwaitingConsensus(
                             SealedEpochStateAt(address,
                                 sealed_epoch_number(phase.sealed_epoch), b),
                             phase.round_start),
                         current_epoch)
          [] phase.tag = "AwaitingDispute" ->
               IF fail = "sealed" THEN Upstream
               ELSE LET sealed_epoch ==
                            SealedEpochStateAt(address,
                                               phase.sealed_epoch.epoch_number, b)
                    IN  IF sealed_epoch.variant = "SealedEpochNoClaims"
                          THEN IllegalState(sealed_epoch.sealed_epoch)
                          ELSE Pair(AwaitingDispute(sealed_epoch.claimed_epoch),
                                    current_epoch)

\* Mutant: initial_epoch is taken from the accumulating epoch's number.
fold_no_event_rebased(previous_state, b, fail) ==
    LET dapp_contract_address == previous_state.dapp_contract_address
        current_epoch ==
            AccumulatingEpochAt(dapp_contract_address,
                                previous_state.current_epoch.epoch_number, b)
        arm == fold_refresh_phase(previous_state, current_epoch, b, fail)
    IN  IF fail = "accumulating" THEN Upstream
        ELSE IF ~arm.ok THEN arm
        ELSE Ok(EpochState(previous_state.current_epoch.epoch_number,
                           arm.current_phase,
                           previous_state.finalized_epochs, arm.current_epoch,
                           previous_state.phase_change_timestamp,
                           dapp_contract_address))

\* Mutant: the accumulating epoch is carried over, not fetched again.
fold_no_event_stale(previous_state, b, fail) ==
    LET dapp_contract_address == previous_state.dapp_contract_address
        current_epoch == previous_state.current_epoch
        arm == fold_refresh_phase(previous_state, current_epoch, b, fail)
    IN  IF fail = "accumulating" THEN Upstream
        ELSE IF ~arm.ok THEN arm
        ELSE Ok(EpochState(previous_state.initial_epoch, arm.current_phase,
                           previous_state.finalized_epochs, arm.current_epoch,
                           previous_state.phase_change_timestamp,
                           dapp_contract_address))

\* The branch taken when the bloom filter rules a PhaseChange log out.
fold_no_event(previous_state, b, fail) ==
    LET dapp_contract_address == previous_state.dapp_contract_address
        current_epoch ==
            AccumulatingEpochAt(dapp_contract_address,
                                previous_state.current_epoch.epoch_number, b)
        arm == fold_refresh_phase(previous_state, current_epoch, b, fail)
    IN  IF fail = "accumulating" THEN Upstream
        ELSE IF ~arm.ok THEN arm
        ELSE Ok(EpochState(previous_state.initial_epoch, arm.current_phase,
                           previous_state.finalized_epochs, arm.current_epoch,
                           previous_state.phase_change_timestamp,
                           dapp_contract_address))

\* Some(PhaseChangeFilter { new_phase: 0 }) | None
fold_input_accumulation(address, next, b, fail) ==
    IF fail = "accumulating" THEN Upstream
    ELSE Pair(InputAccumulation, AccumulatingEpochAt(address, next, b))

\* Mutant: round_start is the timestamp of the parent block.
fold_awaiting_consensus_parent_time(address, next, b, fail) ==
    IF fail \in {"sealed", "accumulating"} THEN Upstream
    ELSE LET sealed_epoch == SealedEpochStateAt(address, next, b)
             current_epoch == AccumulatingEpochAt(address, next + 1, b)
             round_start == chain[b - 1].timestamp
         IN  Pair(AwaitingConsensus(sealed_epoch, round_start), current_epoch)

\* Mutant: the accumulating epoch is fetched at next_epoch, the sealed one's
\* number.
fold_awaiting_consensus_same_epoch(address, next, b, fail) ==
    IF fail \in {"sealed", "accumulating"} THEN Upstream
    ELSE LET sealed_epoch == SealedEpochStateAt(address, next, b)
             current_epoch == AccumulatingEpochAt(address, next, b)
             round_start == chain[b].timestamp
         IN  Pair(AwaitingConsensus(sealed_epoch, round_start), current_epoch)

\* Some(PhaseChangeFilter { new_phase: 1 })
fold_awaiting_consensus(address, next, b, fail) ==
    IF fail \in {"sealed", "accumulating"} THEN Upstream
    ELSE LET sealed_epoch == SealedEpochStateAt(address, next, b)
             current_epoch == AccumulatingEpochAt(address, next + 1, b)
             round_start == chain[b].timestamp
         IN  Pair(AwaitingConsensus(sealed_epoch, round_start), current_epoch)

\* Some(PhaseChangeFilter { new_phase: 2 })
fold_awaiting_dispute(address, next, b, fail) ==
    IF fail \in {"sealed", "accumulating"} THEN Upstream
    ELSE LET sealed_epoch == SealedEpochStateAt(address, next, b)
             current_epoch == AccumulatingEpochAt(address, next + 1, b)
         IN  IF sealed_epoch.variant = "SealedEpochNoClaims"
               THEN IllegalState(sealed_epoch.sealed_epoch)
               ELSE Pair(AwaitingDispute(sealed_epoch.claimed_epoch), current_epoch)

\* Mutant: the arms of codes 1 and 2 are swapped.
fold_match_swapped(address, next, b, phase_change_events, fail) ==
    IF phase_change_events = <<>>
      THEN fold_input_accumulation(address, next, b, fail)
    ELSE LET new_phase == LastOf(phase_change_events).new_phase IN
      CASE new_phase = 0 -> fold_input_accumulation(address, next, b, fail)
        [] new_phase = 1 -> fold_awaiting_dispute(address, next, b, fail)
        [] new_phase = 2 -> fold_awaiting_consensus(address, next, b, fail)
        [] OTHER -> UnrecognizedPhase(new_phase)

\* Mutant: a code that is none of 1, 2 is read as InputAccumulation.
fold_match_lenient(address, next, b, phase_change_events, fail) ==
    IF phase_change_events = <<>>
      THEN fold_input_accumulation(address, next, b, fail)
    ELSE LET new_phase == LastOf(phase_change_events).new_phase IN
      CASE new_phase = 1 -> fold_awaiting_consensus(address, next, b, fail)
        [] new_phase = 2 -> fold_awaiting_dispute(address, next, b, fail)
        [] OTHER -> fold_input_accumulation(address, next, b, fail)

\* let (current_phase, current_epoch) = match phase_change_events.last() {...}
fold_match(address, next, b, phase_change_events, fail) ==
    IF phase_change_events = <<>>
      THEN fold_input_accumulation(address, next, b, fail)
    ELSE LET new_phase == LastOf(phase_change_events).new_phase IN
      CASE new_phase = 0 -> fold_input_accumulation(address, next, b, fail)
        [] new_phase = 1 -> fold_awaiting_consensus(address, next, b, fail)
        [] new_phase = 2 -> fold_awaiting_dispute(address, next, b, fail)
        [] OTHER -> UnrecognizedPhase(new_phase)

\* Mutant: the timestamp of the previous state is carried over in every case.
fold_phase_change_timestamp_carried(previous_state, phase_change_events, b) ==
    previous_state.phase_change_timestamp

\* Mutant: a block without PhaseChange logs clears the timestamp.
fold_phase_change_timestamp_cleared(previous_state, phase_change_events, b) ==
    IF phase_change_events = <<>> THEN None
    ELSE Some(chain[b].timestamp)

\* Mutant: every fold through the possible-event branch stamps the block.
fold_phase_change_timestamp_always(previous_state, phase_change_events, b) ==
    Some(chain[b].timestamp)

\* let phase_change_timestamp = if phase_change_events.is_empty() {...}
fold_phase_change_timestamp(previous_state, phase_change_events, b) ==
    IF phase_change_events = <<>> THEN previous_state.phase_change_timestamp
    ELSE Some(chain[b].timestamp)

\* Mutant: the ledger of the previous state is carried over.
fold_possible_event_stale_ledger(previous_state, b, fail) ==
    LET dapp_contract_address == previous_state.dapp_contract_address
        finalized_epochs == previous_state.finalized_epochs
        next == next_epoch(finalized_epochs)
        phase_change_events == EventsIn(b)
        arm == fold_match(dapp_contract_address, next, b, phase_change_events, fail)
        phase_change_timestamp ==
            fold_phase_change_timestamp(previous_state, phase_change_events, b)
    IN  IF fail \in {"finalized", "events"} THEN Upstream
        ELSE IF ~arm.ok THEN arm
        ELSE Ok(EpochState(previous_state.initial_epoch, arm.current_phase,
                           finalized_epochs, arm.current_epoch,
                           phase_change_timestamp, dapp_contract_address))

\* Mutant: a code 2 observed from InputAccumulation is rejected.
fold_possible_event_guarded(previous_state, b, fail) ==
    LET dapp_contract_address == previous_state.dapp_contract_address
        finalized_epochs ==
            FinalizedEpochsAt(dapp_contract_address, previous_state.initial_epoch, b)
        next == next_epoch(finalized_epochs)
        phase_change_events == EventsIn(b)
        arm == fold_match(dapp_contract_address, next, b, phase_change_events, fail)
        phase_change_timestamp ==
            fold_phase_change_timestamp(previous_state, phase_change_events, b)
    IN  IF fail \in {"finalized", "events"} THEN Upstream
        ELSE IF /\ phase_change_events # <<>>
                /\ LastOf(phase_change_events).new_phase = 2
                /\ previous_state.current_phase.tag = "InputAccumulation"
          THEN IllegalState(NoSnapshot)
        ELSE IF ~arm.ok THEN arm
        ELSE Ok(EpochState(previous_state.initial_epoch, arm.current_phase,
                           finalized_epochs, arm.current_epoch,
                           phase_change_timestamp, dapp_contract_address))

\* The branch taken when the bloom filter admits a PhaseChange log.
fold_possible_event(previous_state, b, fail) ==
    LET dapp_contract_address == previous_state.dapp_contract_address
        finalized_epochs ==
            FinalizedEpochsAt(dapp_contract_address, previous_state.initial_epoch, b)
        next == next_epoch(finalized_epochs)
        phase_change_events == EventsIn(b)
        arm == fold_match(dapp_contract_address, next, b, phase_change_events, fail)
        phase_change_timestamp ==
            fold_phase_change_timestamp(previous_state, phase_change_events, b)
    IN  IF fail \in {"finalized", "events"} THEN Upstream
        ELSE IF ~arm.ok THEN arm
        ELSE Ok(EpochState(previous_state.initial_epoch, arm.current_phase,
                           finalized_epochs, arm.current_epoch,
                           phase_change_timestamp, dapp_contract_address))

fold(previous_state, b, fail) ==
    IF no_phase_change_log(b)
      THEN fold_no_event(previous_state, b, fail)
      ELSE fold_possible_event(previous_state, b, fail)

----------------------------------------------------------------------------
\* The remote reads each call awaits on its path through the code.

\* The fetches of the match arm the last PhaseChange log selects.
arm_lookups(phase_change_events) ==
    IF phase_change_events = <<>> THEN {"accumulating"}
    ELSE LET new_phase == LastOf(phase_change_events).new_phase IN
      CASE new_phase = 0 -> {"accumulating"}
        [] new_phase \in {1, 2} -> {"sealed", "accumulating"}
        [] OTHER -> {}

sync_lookups(b) ==
    {"finalized", "events"}
    \cup (IF EventsUpTo(b) # <<>> THEN {"block"} ELSE {})
    \cup arm_lookups(EventsUpTo(b))

fold_lookups(previous_state, b) ==
    IF no_phase_change_log(b)
      THEN {"accumulating"}
           \cup (IF previous_state.current_phase.tag = "InputAccumulation"
                   THEN {} ELSE {"sealed"})
      ELSE {"finalized", "events"} \cup arm_lookups(EventsIn(b))

----------------------------------------------------------------------------
\* The chain and the framework that drives sync and fold over it.

\* (dapp_contract_address, initial_epoch) handed to sync
InitialStates == {<<"dapp1", 0>>, <<"dapp2", 1>>}

\* The PhaseChange logs one block can carry, oldest first.
EventLists == {<<>>, <<0>>, <<1>>, <<2>>, <<7>>, <<1, 2>>, <<2, 0>>}

\* What logs_bloom can report. It has no false negatives: a block with a
\* PhaseChange log of the dapp reports both the address and the topic.
Blooms(events) ==
    IF events = <<>> THEN SUBSET {"address", "topic"}
    ELSE {{"address", "topic"}}

\* An epoch is finalized in the transaction that emits PhaseChange(0).
Finalizations(events, finalized) ==
    IF \E i \in 1..Len(events) : events[i] = 0
      THEN {finalized, finalized + 1}
      ELSE {finalized}

\* The blocks that can follow `parent`; timestamps grow along the chain.
NextBlocks(parent) ==
    {blk \in [timestamp : {parent.timestamp + 1}, events : EventLists,
              logs_bloom : SUBSET {"address", "topic"},
              finalized : {parent.finalized, parent.finalized + 1},
              claims : BOOLEAN] :
        /\ blk.logs_bloom \in Blooms(blk.events)
        /\ blk.finalized \in Finalizations(blk.events, parent.finalized)}

FirstBlock ==
    [timestamp |-> 1, events |-> <<>>, logs_bloom |-> {}, finalized |-> 0,
     claims |-> FALSE]

NoCall ==
    [op |-> "none", initial_state |-> <<>>, previous_state |-> NoState,
     previous_at |-> 0, block |-> 0, failed |-> FALSE, result |-> Upstream]

\* `failed`: one of the remote reads the call made did not succeed.
Call(op, initial_state, b, failed, result) ==
    [op |-> op, initial_state |-> initial_state, previous_state |-> state,
     previous_at |-> at, block |-> b, failed |-> failed, result |-> result]

Init ==
    /\ chain = <<FirstBlock>>
    /\ state = NoState
    /\ at = 0
    /\ last = NoCall

\* A block is mined once the framework has caught up with the chain.
Mine ==
    /\ Len(chain) < 1 + MaxBlocks
    /\ at \in {0, Len(chain)}
    /\ \E blk \in NextBlocks(chain[Len(chain)]) : chain' = Append(chain, blk)
    /\ UNCHANGED <<state, at, last>>

Return(op, initial_state, b, failed, result) ==
    /\ last' = Call(op, initial_state, b, failed, result)
    /\ IF result.ok
         THEN state' = result.state /\ at' = b
         ELSE UNCHANGED <<state, at>>
    /\ UNCHANGED chain

\* The framework has no trusted state for the latest block: cold rebuild.
DoSync ==
    \E initial_state \in InitialStates, fail \in Fails :
        Return("sync", initial_state, Len(chain),
               fail \in sync_lookups(Len(chain)),
               sync(initial_state, Len(chain), fail))

\* The framework advances its state by the next block.
DoFold ==
    /\ at # 0
    /\ at < Len(chain)
    /\ \E fail \in Fails :
        Return("fold", <<>>, at + 1, fail \in fold_lookups(state, at + 1),
               fold(state, at + 1, fail))

\* The framework replays fold on the block its state is already valid at.
DoRefold ==
    /\ at # 0
    /\ \E fail \in Fails :
        Return("fold", <<>>, at, fail \in fold_lookups(state, at),
               fold(state, at, fail))

Next == Mine \/ DoSync \/ DoFold \/ DoRefold

Spec == Init /\ [][Next]_vars

----------------------------------------------------------------------------
\* Vocabulary of the properties.

FoldReturned == last.op = "fold" /\ last.result.ok
SyncReturned == last.op = "sync" /\ last.result.ok
\* Every lookup the call made succeeded.
LookupsSucceeded == last.op # "none" /\ last.result.err # "upstream"
\* The (address, initial_epoch) an EpochState was rebuilt from.
LineageOf(s) == <<s.dapp_contract_address, s.initial_epoch>>
\* The phase identity.
PhaseOf(s) == s.current_phase.tag
\* The number of the sealed epoch of a state that has one.
SealedNumberOf(s) ==
    IF PhaseOf(s) = "AwaitingConsensus"
      THEN sealed_epoch_number(s.current_phase.sealed_epoch)
      ELSE s.current_phase.sealed_epoch.epoch_number
\* The blocks up to b that carry a PhaseChange log.
EventBlocks(b) == {i \in 1..b : chain[i].events # <<>>}
Latest(S) == CHOOSE i \in S : \A j \in S : j <= i

----------------------------------------------------------------------------
\* C1: a state obtained by folding one block at a time from a cold rebuild is
\* field for field the cold rebuild at the block it has reached. Stated on
\* the step: when fold advances a state that equals sync at its block by the
\* next block and returns, it returns what sync returns at that next block.
C1_FoldEqualsSync ==
    (/\ FoldReturned
     /\ last.block = last.previous_at + 1
     /\ sync(LineageOf(last.previous_state), last.previous_at, "none")
            = Ok(last.previous_state))
    => last.result = sync(LineageOf(last.previous_state), last.block, "none")

\* C2: a state in InputAccumulation accumulates epoch next_epoch(); a state
\* in AwaitingConsensus or AwaitingDispute has sealed epoch next_epoch() and
\* accumulates the epoch after it.
C2_PhaseEpochCount ==
    at # 0 =>
        LET n == next_epoch(state.finalized_epochs) IN
        IF PhaseOf(state) = "InputAccumulation"
          THEN state.current_epoch.epoch_number = n
          ELSE /\ SealedNumberOf(state) = n
               /\ state.current_epoch.epoch_number = SealedNumberOf(state) + 1

\* C2 witness: fold has produced a state with a sealed epoch after a
\* finalization.
C2_Witness ==
    /\ FoldReturned
    /\ at # 0
    /\ PhaseOf(state) # "InputAccumulation"
    /\ next_epoch(state.finalized_epochs) > 0

\* C3: a fold over a block without a PhaseChange log of the dapp returns the
\* phase identity of the previous state, whatever the bloom filter reports.
C3_NoSpontaneousPhaseChange ==
    (FoldReturned /\ chain[last.block].events = <<>>)
    => PhaseOf(last.result.state) = PhaseOf(last.previous_state)

\* C4: when the bloom filter rules the address or the topic out, a fold that
\* returns keeps the phase identity, round_start, phase_change_timestamp,
\* finalized_epochs and both epoch numbers of the previous state, and holds
\* the trackers' snapshots of these epochs as of the new block.
C4_BloomShortCircuit ==
    (FoldReturned /\ no_phase_change_log(last.block)) =>
        LET prev == last.previous_state
            new == last.result.state
            address == prev.dapp_contract_address
        IN  /\ PhaseOf(new) = PhaseOf(prev)
            /\ new.phase_change_timestamp = prev.phase_change_timestamp
            /\ new.finalized_epochs = prev.finalized_epochs
            /\ new.current_epoch =
                   AccumulatingEpochAt(address, prev.current_epoch.epoch_number,
                                       last.block)
            /\ PhaseOf(prev) = "AwaitingConsensus" =>
                   /\ new.current_phase.round_start = prev.current_phase.round_start
                   /\ new.current_phase.sealed_epoch =
                          SealedEpochStateAt(address, SealedNumberOf(prev), last.block)
            /\ PhaseOf(prev) = "AwaitingDispute" =>
                   new.current_phase.sealed_epoch =
                       EpochWithClaimsAt(address, SealedNumberOf(prev), last.block)

\* C4 witness: the short circuit advanced an AwaitingConsensus state to a
\* later block, whose snapshots differ from the ones it held.
C4_Witness ==
    /\ FoldReturned
    /\ no_phase_change_log(last.block)
    /\ last.block > last.previous_at
    /\ PhaseOf(last.previous_state) = "AwaitingConsensus"
    /\ last.result.state.current_epoch # last.previous_state.current_epoch
    /\ last.result.state.current_phase.sealed_epoch
           # last.previous_state.current_phase.sealed_epoch

----------------------------------------------------------------------------
\* The last call is one of the three places that construct AwaitingDispute.
SyncDecidesDispute ==
    /\ last.op = "sync"
    /\ EventsUpTo(last.block) # <<>>
    /\ LastOf(EventsUpTo(last.block)).new_phase = 2
FoldDecidesDispute ==
    /\ last.op = "fold"
    /\ ~no_phase_change_log(last.block)
    /\ chain[last.block].events # <<>>
    /\ LastOf(chain[last.block].events) = 2
FoldRefreshesDispute ==
    /\ last.op = "fold"
    /\ no_phase_change_log(last.block)
    /\ PhaseOf(last.previous_state) = "AwaitingDispute"
\* The sealed-epoch snapshot that call fetches at its block.
DisputeSnapshot ==
    IF last.op = "sync"
      THEN SealedEpochStateAt(last.initial_state[1],
                              chain[last.block].finalized, last.block)
    ELSE IF FoldRefreshesDispute
      THEN SealedEpochStateAt(last.previous_state.dapp_contract_address,
                              SealedNumberOf(last.previous_state), last.block)
    ELSE SealedEpochStateAt(last.previous_state.dapp_contract_address,
                            chain[last.block].finalized, last.block)

\* C5: a call that gets as far as constructing AwaitingDispute with a sealed
\* snapshot without claims fails with the illegal-state error that carries
\* the snapshot, and no state in AwaitingDispute holds a sealed epoch without
\* claims.
C5_NoClaimsInDispute ==
    /\ (/\ SyncDecidesDispute \/ FoldDecidesDispute \/ FoldRefreshesDispute
        /\ LookupsSucceeded
        /\ DisputeSnapshot.variant = "SealedEpochNoClaims")
       => last.result = IllegalState(DisputeSnapshot.sealed_epoch)
    /\ (at # 0 /\ PhaseOf(state) = "AwaitingDispute") =>
           /\ state.current_phase.sealed_epoch.type = "EpochWithClaims"
           /\ SealedEpochStateAt(state.dapp_contract_address,
                                 SealedNumberOf(state), at).variant
                  = "SealedEpochWithClaims"

\* C5 witness: the short circuit refreshed a state in AwaitingDispute, found
\* the sealed epoch without claims and failed.
C5_Witness ==
    /\ FoldRefreshesDispute
    /\ last.result.err = "illegal_state"

\* C6: fold never turns a recorded phase_change_timestamp into None, changes
\* it only to the timestamp of the new block, which is not earlier than the
\* old value, and a state without a timestamp has no PhaseChange log at or
\* before its block.
C6_TimestampMonotonic ==
    /\ FoldReturned =>
           LET old == last.previous_state.phase_change_timestamp
               new == last.result.state.phase_change_timestamp
           IN  /\ old # None => new # None
               /\ new # old =>
                      /\ new = Some(chain[last.block].timestamp)
                      /\ old # None => old[1] <= new[1]
    /\ (at # 0 /\ state.phase_change_timestamp = None) => EventBlocks(at) = {}

\* C6 witness: fold replaced a recorded timestamp by a later one.
C6_Witness ==
    /\ FoldReturned
    /\ last.previous_state.phase_change_timestamp # None
    /\ last.result.state.phase_change_timestamp
           # last.previous_state.phase_change_timestamp

\* C7: phase_change_timestamp is the timestamp of the latest block, up to the
\* state's block, that carries a PhaseChange log, and None when there is none.
C7_TimestampExact ==
    at # 0 =>
        state.phase_change_timestamp =
            IF EventBlocks(at) = {} THEN None
            ELSE Some(chain[Latest(EventBlocks(at))].timestamp)

\* C7 witness: a fold through the possible-event branch kept the timestamp
\* of a PhaseChange log of an earlier block.
C7_Witness ==
    /\ FoldReturned
    /\ at = last.block
    /\ ~no_phase_change_log(last.block)
    /\ state.phase_change_timestamp # None
    /\ state.phase_change_timestamp # Some(chain[at].timestamp)

\* The PhaseChange code that decides the phase in the last call, <<>> if none.
DecidingCode ==
    IF last.op = "sync"
      THEN IF EventsUpTo(last.block) = <<>> THEN <<>>
           ELSE <<LastOf(EventsUpTo(last.block)).new_phase>>
    ELSE IF last.op = "fold" /\ ~no_phase_change_log(last.block)
                             /\ chain[last.block].events # <<>>
      THEN <<LastOf(chain[last.block].events)>>
    ELSE <<>>

\* C8: when the deciding PhaseChange code is none of 0, 1, 2 and every lookup
\* succeeds, sync and fold fail with the unrecognized-phase-code error that
\* carries the code.
C8_UnrecognizedCode ==
    (/\ LookupsSucceeded
     /\ DecidingCode # <<>>
     /\ DecidingCode[1] \notin {0, 1, 2})
    => last.result = UnrecognizedPhase(DecidingCode[1])

\* C8 witness: fold met an unrecognized code.
C8_Witness ==
    /\ last.op = "fold"
    /\ last.result.err = "unrecognized_phase"
    /\ last.result.code = 7

\* The first seal: the previous state is the one sync returns without any
\* PhaseChange log, and the new block's only log has code 1.
FirstSeal ==
    /\ last.op = "fold"
    /\ LookupsSucceeded
    /\ PhaseOf(last.previous_state) = "InputAccumulation"
    /\ last.previous_state.current_epoch.epoch_number
           = next_epoch(last.previous_state.finalized_epochs)
    /\ last.previous_state.phase_change_timestamp = None
    /\ chain[last.block].events = <<1>>
    /\ chain[last.block].finalized = next_epoch(last.previous_state.finalized_epochs)

\* C9: the first seal yields AwaitingConsensus with the sealed snapshot of
\* epoch n, round_start and phase_change_timestamp at the block's timestamp,
\* and the accumulating epoch n + 1.
C9_GenesisToFirstSeal ==
    FirstSeal =>
        LET prev == last.previous_state
            n == next_epoch(prev.finalized_epochs)
            T == chain[last.block].timestamp
            new == last.result.state
        IN  /\ last.result.ok
            /\ new.current_phase =
                   AwaitingConsensus(
                       SealedEpochStateAt(prev.dapp_contract_address, n, last.block), T)
            /\ new.current_epoch.epoch_number = n + 1
            /\ new.current_epoch =
                   AccumulatingEpochAt(prev.dapp_contract_address, n + 1, last.block)
            /\ new.phase_change_timestamp = Some(T)

\* C9 witness: the first seal has been folded.
C9_Witness == FirstSeal /\ last.result.ok /\ last.block > last.previous_at

\* C10: fold applied to what sync returns at a block, with that same block,
\* returns the same EpochState, for every sound bloom filter.
C10_FoldIdempotentOnSync ==
    (/\ last.op = "fold"
     /\ LookupsSucceeded
     /\ last.block = last.previous_at
     /\ sync(LineageOf(last.previous_state), last.block, "none")
            = Ok(last.previous_state))
    => last.result = Ok(last.previous_state)

----------------------------------------------------------------------------
\* The transitions of the contract's phase machine.
LegalTransition(from, to) ==
    \/ from = "InputAccumulation" /\ to = "AwaitingConsensus"
    \/ from = "AwaitingConsensus" /\ to = "AwaitingDispute"
    \/ from = "AwaitingDispute" /\ to = "InputAccumulation"
    \/ from = "AwaitingConsensus" /\ to = "InputAccumulation"
\* The phase a PhaseChange code names.
PhaseNamedBy(code) ==
    CASE code = 0 -> "InputAccumulation"
      [] code = 1 -> "AwaitingConsensus"
      [] code = 2 -> "AwaitingDispute"
      [] OTHER -> "unrecognized"

\* C11 as stated: a fold keeps the phase identity or moves it along one of
\* the four legal transitions.
C11_OnlyLegalTransitions ==
    FoldReturned =>
        \/ PhaseOf(last.result.state) = PhaseOf(last.previous_state)
        \/ LegalTransition(PhaseOf(last.previous_state), PhaseOf(last.result.state))

\* C11 amended: a fold over a block with PhaseChange logs returns the phase
\* the last of them names, so it keeps the phase identity or moves it along a
\* legal transition whenever the block carries no log or its last code names
\* a legal successor of the previous phase.
C11_LegalWhenLastCodeLegal ==
    FoldReturned =>
        LET from == PhaseOf(last.previous_state)
            to == PhaseOf(last.result.state)
            events == chain[last.block].events
        IN  /\ events # <<>> => to = PhaseNamedBy(LastOf(events))
            /\ (\/ events = <<>>
                \/ PhaseNamedBy(LastOf(events)) = from
                \/ LegalTransition(from, PhaseNamedBy(LastOf(events))))
               => (to = from \/ LegalTransition(from, to))

\* C11 witness: a fold moved AwaitingConsensus to AwaitingDispute on code 2.
C11_Witness ==
    /\ FoldReturned
    /\ chain[last.block].events = <<2>>
    /\ PhaseOf(last.previous_state) = "AwaitingConsensus"
    /\ PhaseOf(last.result.state) = "AwaitingDispute"

----------------------------------------------------------------------------
\* The last call met one of the conditions that abort it.
CallMustFail ==
    \/ last.failed
    \/ DecidingCode # <<>> /\ DecidingCode[1] \notin {0, 1, 2}
    \/ /\ SyncDecidesDispute \/ FoldDecidesDispute \/ FoldRefreshesDispute
       /\ DisputeSnapshot.variant = "SealedEpochNoClaims"

\* C12: a call in which a lookup fails, or that meets the illegal-state or the
\* unrecognized-code condition, returns an error and no EpochState, and the
\* state the framework held before the call is the state it holds after it.
C12_AllOrNothing ==
    last.op # "none" =>
        /\ CallMustFail => ~last.result.ok
        /\ ~last.result.ok =>
               /\ last.result.state = NoState
               /\ state = last.previous_state
               /\ at = last.previous_at

\* C12 witness: a fold whose sealed-epoch fetch failed left the previous
\* state in place.
C12_Witness ==
    /\ last.op = "fold"
    /\ last.failed
    /\ ~last.result.ok
    /\ PhaseOf(last.previous_state) = "AwaitingConsensus"
    /\ state = last.previous_state

----------------------------------------------------------------------------
\* C13: a state in AwaitingConsensus or AwaitingDispute has a
\* phase_change_timestamp; a state without one is in InputAccumulation.
C13_TimestampPresent ==
    (at # 0 /\ PhaseOf(state) # "InputAccumulation")
    => state.phase_change_timestamp # None

\* C13 witness: fold sealed an epoch from a state without a timestamp.
C13_Witness ==
    /\ FoldReturned
    /\ last.previous_state.phase_change_timestamp = None
    /\ at = last.block
    /\ PhaseOf(state) # "InputAccumulation"

\* C14: sync returns a state with the address and initial epoch it was
\* given, and fold returns a state with those of its previous state.
C14_LineageImmutable ==
    /\ SyncReturned => LineageOf(last.result.state) = last.initial_state
    /\ FoldReturned => LineageOf(last.result.state) = LineageOf(last.previous_state)

\* C14 witness: the short circuit has carried the lineage <<"dapp2", 1>> on
\* from a state held at a block with a possible PhaseChange log.
C14_Witness ==
    /\ FoldReturned
    /\ last.block > last.previous_at
    /\ last.previous_at > 1
    /\ LineageOf(last.result.state) = <<"dapp2", 1>>
    /\ no_phase_change_log(last.block)
    /\ ~no_phase_change_log(last.previous_at)

----------------------------------------------------------------------------
\* The last call is a fold on a bloom false positive: the filter admits a
\* PhaseChange log of the dapp and the block carries none.
FalsePositiveFold ==
    /\ last.op = "fold"
    /\ ~no_phase_change_log(last.block)
    /\ chain[last.block].events = <<>>

\* C15: on a bloom false positive fold returns what its no-event branch
\* returns for the same previous state and block.
C15_FalsePositiveHarmless ==
    (FalsePositiveFold /\ ~last.failed)
    => last.result = fold_no_event(last.previous_state, last.block, "none")

\* How sync is to decode the history up to block b: from the last event only.
ColdPhase(address, b) ==
    LET n == chain[b].finalized
        code == IF EventBlocks(b) = {} THEN 0
                ELSE LastOf(chain[Latest(EventBlocks(b))].events)
    IN  CASE code = 0 -> InputAccumulation
          [] code = 1 ->
               AwaitingConsensus(SealedEpochStateAt(address, n, b),
                                 chain[Latest(EventBlocks(b))].timestamp)
          [] code = 2 -> AwaitingDispute(EpochWithClaimsAt(address, n, b))
          [] OTHER -> NoSnapshot

\* C16: a sync that returns decodes the most recent PhaseChange log only:
\* none or code 0 gives InputAccumulation accumulating next_epoch, code 1
\* AwaitingConsensus with round_start at the timestamp of the log's block,
\* code 2 AwaitingDispute, both sealed at next_epoch and accumulating
\* next_epoch + 1.
C16_SyncDecodesLastEvent ==
    SyncReturned =>
        LET new == last.result.state
            address == last.initial_state[1]
            n == chain[last.block].finalized
        IN  /\ next_epoch(new.finalized_epochs) = n
            /\ new.current_phase = ColdPhase(address, last.block)
            /\ new.current_epoch =
                   AccumulatingEpochAt(address,
                       IF PhaseOf(new) = "InputAccumulation" THEN n ELSE n + 1,
                       last.block)

\* C16 witness: sync returned at a block that carries two PhaseChange logs of
\* different codes, after an earlier block with a log of its own.
C16_Witness ==
    /\ SyncReturned
    /\ Len(chain[last.block].events) = 2
    /\ chain[last.block].events[1] # chain[last.block].events[2]
    /\ EventBlocks(last.block - 1) # {}

----------------------------------------------------------------------------
\* C17: finalized_epochs is the ledger's snapshot as of the state's block,
\* also when the no-event branch of fold copied it from the previous state.
C17_FinalizedFresh ==
    at # 0 =>
        state.finalized_epochs =
            FinalizedEpochsAt(state.dapp_contract_address, state.initial_epoch, at)

\* C17 witness: the no-event branch copied a ledger that holds a finalized
\* epoch to a later block.
C17_Witness ==
    /\ FoldReturned
    /\ at = last.block
    /\ last.block > last.previous_at
    /\ no_phase_change_log(last.block)
    /\ next_epoch(state.finalized_epochs) > 0

\* C18: in AwaitingConsensus round_start is the value of
\* phase_change_timestamp.
C18_RoundStartIsTimestamp ==
    (at # 0 /\ PhaseOf(state) = "AwaitingConsensus")
    => state.phase_change_timestamp = Some(state.current_phase.round_start)

\* C18 witness: the no-event branch carried an AwaitingConsensus state, whose
\* round started at an earlier block, to a later block.
C18_Witness ==
    /\ FoldReturned
    /\ at = last.block
    /\ last.block > last.previous_at
    /\ no_phase_change_log(last.block)
    /\ PhaseOf(state) = "AwaitingConsensus"
    /\ state.current_phase.round_start < chain[at].timestamp

\* Previous states of the lineage of s that differ from one another in
\* phase, accumulating epoch, ledger and timestamp.
OtherPreviousStates(s) ==
    LET address == s.dapp_contract_address
        ledger(n) == [dapp_contract_address |-> address,
                      initial_epoch |-> s.initial_epoch, finalized |-> n]
    IN  {EpochState(s.initial_epoch, InputAccumulation, ledger(0),
                    AccumulatingEpochAt(address, 0, 1), None, address),
         EpochState(s.initial_epoch,
                    AwaitingConsensus(SealedEpochStateAt(address, 1, 1), 1),
                    ledger(1), AccumulatingEpochAt(address, 2, 1), Some(1), address),
         EpochState(s.initial_epoch,
                    AwaitingDispute(EpochWithClaimsAt(address, 2, 1)),
                    ledger(2), AccumulatingEpochAt(address, 3, 1), Some(1), address)}

\* The last call is a fold whose bloom check passed on a block that carries
\* a PhaseChange log.
EventFold ==
    /\ last.op = "fold"
    /\ ~no_phase_change_log(last.block)
    /\ chain[last.block].events # <<>>

\* C19: when the bloom check passes and the block carries a PhaseChange log,
\* fold returns the same Result for every previous state of the same address
\* and initial epoch.
C19_IndependentOfPreviousPhase ==
    (EventFold /\ ~last.failed) =>
        \A other \in OtherPreviousStates(last.previous_state) :
            fold(other, last.block, "none") = last.result

\* C19 witness: fold took a state in InputAccumulation to AwaitingDispute,
\* a code that is no legal successor of its phase.
C19_Witness ==
    /\ EventFold
    /\ last.result.ok
    /\ PhaseOf(last.previous_state) = "InputAccumulation"
    /\ chain[last.block].events = <<2>>
    /\ PhaseOf(last.result.state) = "AwaitingDispute"

====
